---- MODULE Spec2Model ----
(***************************************************************************)
(* A model of the deterministic pushdown automaton interpreter of          *)
(* automata.py: the Automata object (its transition table, alphabet,       *)
(* final and rejecting states, current state and stack) and its simulate   *)
(* method, taken one loop iteration at a time.                             *)
(*                                                                         *)
(* The outcome of a simulate call is one of "True", "False" (the two       *)
(* boolean results), "IndexError" (list.pop() or list[-1] on an empty      *)
(* list) and "KeyError" (dict lookup of a state with no transition block). *)
(***************************************************************************)
EXTENDS Integers, Sequences, FiniteSets, TLC

VARIABLES
    transitions,       \* self.__transitions: state -> (key -> value)
    alphabet,          \* self.__alphabet
    final_states,      \* self.__final_states
    rejecting_states,  \* self.__rejecting_states
    initial_state,     \* self.initial_state
    state,             \* self.__state
    stack,             \* self.__stack, bottom first, top last
    input_string,      \* the argument of the simulate call in progress
    pos,               \* number of symbols the loop has moved past
    pc,                \* "parse" | "failed" | "new" | "loop" | "done"
    result,            \* outcome of the call, "none" while it runs
    visited,           \* states held at each prefix boundary of this call
    last,              \* what the latest loop iteration of this call did
    prev_input,        \* argument of the previous call on this instance
    prev_result,       \* outcome of the previous call on this instance
    calls,             \* number of simulate calls made by the caller
    parse              \* the frame of create_from_file: its lines and locals

config == <<transitions, alphabet, final_states, rejecting_states, initial_state>>
vars == <<transitions, alphabet, final_states, rejecting_states, initial_state,
          state, stack, input_string, pos, pc, result, visited, last,
          prev_input, prev_result, calls, parse>>

----------------------------------------------------------------------------
(* Reserved symbols                                                        *)

STACK_END == ">"
INPUT_END == "<"

----------------------------------------------------------------------------
(* Bounds                                                                  *)

MaxLen == 2        \* longest input of a call in Spec
MaxCalls == 2      \* simulate calls per instance in Spec
MaxCanonLen == 5   \* longest binary string given to the canonical automaton
MaxMarkerLen == 3  \* longest input over {0, 1, <} in SpecMarker
MaxLines == 3      \* most lines of a definition file in SpecParse

----------------------------------------------------------------------------
(* Transition table model                                                  *)

TransitionFunctionInput(input_symbol, stack_top) == <<input_symbol, stack_top>>

TransitionFunctionValue(next_state, symbol_to_push) ==
    [next_state |-> next_state, symbols_to_push |-> symbol_to_push]

\* A rule is one (state, key, value) triple; a table is built from a set of
\* rules in which no two share state and key, as a dict of dicts is.
Rule(s, input_symbol, stack_top, next_state, symbol_to_push) ==
    [state |-> s,
     key   |-> TransitionFunctionInput(input_symbol, stack_top),
     value |-> TransitionFunctionValue(next_state, symbol_to_push)]

Deterministic(rules) ==
    \A r1, r2 \in rules : (r1.state = r2.state /\ r1.key = r2.key) => r1 = r2

Table(rules) ==
    [s \in {r.state : r \in rules} |->
        [k \in {r.key : r \in {x \in rules : x.state = s}} |->
            (CHOOSE r \in rules : r.state = s /\ r.key = k).value]]

----------------------------------------------------------------------------
(* The canonical automaton built in the demonstration                      *)

CanonicalRules ==
    { Rule("q0", "0", STACK_END, "q1", <<">", "0">>),
      Rule("q0", "0", "0", "q1", <<"0", "0">>),
      Rule("q0", "0", "1", "q1", <<>>),
      Rule("q0", "1", STACK_END, "q0", <<">", "1">>),
      Rule("q0", "1", "0", "q0", <<>>),
      Rule("q0", "1", "1", "q0", <<"1", "1">>),
      Rule("q0", INPUT_END, STACK_END, "qA", <<">">>),
      Rule("q0", INPUT_END, "0", "qR", <<>>),
      Rule("q0", INPUT_END, "1", "qR", <<>>),
      Rule("q1", "0", STACK_END, "q0", <<">">>),
      Rule("q1", "0", "0", "q0", <<"0">>),
      Rule("q1", "0", "1", "q0", <<"1">>),
      Rule("q1", "1", STACK_END, "q1", <<STACK_END, "1">>),
      Rule("q1", "1", "0", "q1", <<>>),
      Rule("q1", "1", "1", "q1", <<"1", "1">>),
      Rule("q1", INPUT_END, STACK_END, "qR", <<">">>),
      Rule("q1", INPUT_END, "0", "qR", <<"0">>),
      Rule("q1", INPUT_END, "1", "qR", <<"1">>) }

CanonicalAlphabet == <<"0", "1", "<">>

----------------------------------------------------------------------------
(* The automata and inputs explored by Spec                                *)

\* the list of states given to the constructor
States == <<"q0", "q1", "q2">>

RulePool ==
    { Rule("q0", "a", STACK_END, "q1", <<STACK_END, "Z">>),
      Rule("q0", "a", STACK_END, "q1", <<>>),
      Rule("q0", "b", STACK_END, "q0", <<STACK_END>>),
      Rule("q1", "a", "Z", "q1", <<>>),
      Rule("q1", "b", STACK_END, "q2", <<STACK_END>>) }

Tables == {Table(rules) : rules \in {rs \in SUBSET RulePool : Deterministic(rs)}}

Alphabets == {<<"a">>, <<"a", "b">>}

\* the lists of states, in the order of States
StateLists ==
    {SelectSeq(States, LAMBDA q : q \in S) : S \in SUBSET {"q0", "q1", "q2"}}

InputSymbols == {"a", "b"}

Strings(symbols, n) == UNION {[1..k -> symbols] : k \in 0..n}

Inputs == Strings(InputSymbols, MaxLen)

----------------------------------------------------------------------------
(* Automata.simulate                                                       *)

Top(stk) == stk[Len(stk)]

\* Pop as it would be if the top were only read, not removed.
PopPeek(stk) == stk

Pop(stk) == SubSeq(stk, 1, Len(stk) - 1)

\* The membership test as it would be without the alphabet check.
InAlphabetAny(symbol) == TRUE

InAlphabet(symbol) == symbol \in alphabet

\* An empty pop as it would be if underflow were turned into a rejection.
EmptyPopRejects == "False"

\* list.pop() on an empty list
EmptyPop == "IndexError"

\* self.__transitions[self.__state] for a state that is no key of the dict
MissingBlock == "KeyError"

\* The checks as they would be without the rejecting-state test.
DecideNoReject(s) ==
    IF s \in final_states THEN "True"
    ELSE "continue"

\* The checks as they would be without the final-state test.
DecideNoAccept(s) ==
    IF s \in rejecting_states THEN "False"
    ELSE "continue"

\* The checks as they would be with the final-state test made first.
DecideFinalFirst(s) ==
    IF s \in final_states THEN "True"
    ELSE IF s \in rejecting_states THEN "False"
    ELSE "continue"

\* the checks made on the new state after a matched transition
Decide(s) ==
    IF s \in rejecting_states THEN "False"
    ELSE IF s \in final_states THEN "True"
    ELSE "continue"

\* The pushes as they would be if made in reverse list order.
PushReversed(stk, symbols_to_push) ==
    stk \o [i \in 1..Len(symbols_to_push) |->
                symbols_to_push[Len(symbols_to_push) + 1 - i]]

\* The pushes as they would be if only the last listed symbol were pushed.
PushLastOnly(stk, symbols_to_push) ==
    IF symbols_to_push = <<>> THEN stk
    ELSE Append(stk, symbols_to_push[Len(symbols_to_push)])

\* the pushes of a matched transition, in list order
Push(stk, symbols_to_push) == stk \o symbols_to_push

\* One iteration of the loop over the input, for the symbol at hand.
Iteration(st, stk, symbol) ==
    IF ~InAlphabet(symbol)
    THEN [state |-> st, stack |-> stk, outcome |-> "False",
          kind |-> "not in alphabet"]
    ELSE IF stk = <<>>
    THEN [state |-> st, stack |-> stk, outcome |-> EmptyPop,
          kind |-> "pop from empty list"]
    ELSE LET transition_input == TransitionFunctionInput(symbol, Top(stk))
             popped == Pop(stk)
         IN  IF st \notin DOMAIN transitions
             THEN [state |-> st, stack |-> popped, outcome |-> MissingBlock,
                   kind |-> "no block"]
             ELSE IF transition_input \in DOMAIN transitions[st]
             THEN LET transition_value == transitions[st][transition_input]
                  IN  [state   |-> transition_value.next_state,
                       stack   |-> Push(popped, transition_value.symbols_to_push),
                       outcome |-> Decide(transition_value.next_state),
                       kind    |-> "transition"]
             ELSE [state |-> st, stack |-> popped, outcome |-> "False",
                   kind |-> "transition not found"]

\* The decision as it would be with the final-state criterion alone.
EndOfInputFinalOnly(st, stk) ==
    IF st \in final_states THEN "True" ELSE "False"

\* The decision made once every symbol has been consumed.
EndOfInput(st, stk) ==
    IF st \in final_states THEN "True"
    ELSE IF stk = <<>> THEN "IndexError"
    ELSE IF Top(stk) = STACK_END THEN "True"
    ELSE "False"

\* The caller invokes simulate(x) on the instance.
Simulate(x) ==
    /\ pc \in {"new", "done"}
    /\ input_string' = x
    /\ pos' = 0
    /\ pc' = "loop"
    /\ result' = "none"
    /\ visited' = <<state>>
    /\ last' = "none"
    /\ prev_input' = input_string
    /\ prev_result' = result
    /\ UNCHANGED <<config, state, stack, parse>>

\* The loop body runs for the next symbol of the input.
Step ==
    /\ pc = "loop"
    /\ pos < Len(input_string)
    /\ LET r == Iteration(state, stack, input_string[pos + 1])
       IN  /\ state' = r.state
           /\ stack' = r.stack
           /\ visited' = IF r.kind = "transition"
                         THEN Append(visited, r.state) ELSE visited
           /\ last' = r.kind
           /\ IF r.outcome = "continue"
              THEN pos' = pos + 1 /\ pc' = "loop" /\ result' = "none"
              ELSE pos' = pos /\ pc' = "done" /\ result' = r.outcome
    /\ UNCHANGED <<config, input_string, prev_input, prev_result, calls, parse>>

\* The end of the loop as it would be if the engine fed the input-end
\* marker to the automaton before deciding.
FinishAppendsMarker ==
    /\ pc = "loop"
    /\ pos = Len(input_string)
    /\ LET r == Iteration(state, stack, INPUT_END)
       IN  /\ state' = r.state
           /\ stack' = r.stack
           /\ result' = IF r.outcome = "continue"
                        THEN EndOfInput(r.state, r.stack) ELSE r.outcome
    /\ pc' = "done"
    /\ UNCHANGED <<config, input_string, pos, visited, last,
                   prev_input, prev_result, calls, parse>>

\* The loop is exhausted and the final check decides.
Finish ==
    /\ pc = "loop"
    /\ pos = Len(input_string)
    /\ result' = EndOfInput(state, stack)
    /\ pc' = "done"
    /\ UNCHANGED <<config, state, stack, input_string, pos, visited, last,
                   prev_input, prev_result, calls, parse>>

----------------------------------------------------------------------------
(* Automata.__init__ and the specifications                                *)

Range(f) == {f[i] : i \in DOMAIN f}

\* A value that may be None is None or Some(x), so that None differs from
\* every str and every list.
None == <<>>
Some(x) == <<x>>

\* Automata.__init__: the fields of the new instance, the defaults taken
\* from states when initial_state or final_states is None ("IndexError"
\* when states is then empty).  The other arguments are of their declared
\* types; a list or tuple is kept as the set of its members, the only
\* use made of it being the test of membership.
Automata(states, alph, tr, init, fin, rej) ==
    IF (init = None \/ fin = None) /\ states = <<>>
    THEN [error |-> "IndexError"]
    ELSE LET i == IF init = None THEN states[1] ELSE init[1]
             f == IF fin = None THEN <<states[Len(states)]>> ELSE fin[1]
         IN  [error            |-> "none",
              state            |-> i,
              stack            |-> <<STACK_END>>,
              transitions      |-> tr,
              alphabet         |-> Range(alph),
              final_states     |-> Range(f),
              rejecting_states |-> Range(rej),
              initial_state    |-> i]

\* the variables of the instance hold the fields a
Instance(a) ==
    /\ state = a.state
    /\ stack = a.stack
    /\ transitions = a.transitions
    /\ alphabet = a.alphabet
    /\ final_states = a.final_states
    /\ rejecting_states = a.rejecting_states
    /\ initial_state = a.initial_state

\* the frame when the instance was built in code, not read from a file
NoFrame == [lines |-> <<>>]

NoCallYet ==
    /\ parse = NoFrame
    /\ input_string = <<>>
    /\ pos = 0
    /\ pc = "new"
    /\ result = "none"
    /\ visited = <<>>
    /\ last = "none"
    /\ prev_input = <<>>
    /\ prev_result = "none"
    /\ calls = 0

Init ==
    /\ \E tr \in Tables, alph \in Alphabets, init \in {None, Some("q0")},
          fin \in {Some(l) : l \in StateLists} \cup {None}, rej \in StateLists :
          Instance(Automata(States, alph, tr, init, fin, rej))
    /\ NoCallYet

Call ==
    \E x \in Inputs :
        /\ calls < MaxCalls
        /\ Simulate(x)
        /\ calls' = calls + 1

Next == Call \/ Step \/ Finish

Spec == Init /\ [][Next]_vars

\* The canonical automaton, each binary string on a fresh instance.
InitCanon ==
    /\ Instance(Automata(<<"q0", "q1", "qR", "qA">>, CanonicalAlphabet,
                          Table(CanonicalRules), Some("q0"), Some(<<"qA">>),
                          <<"qR">>))
    /\ NoCallYet

CallFresh ==
    \E x \in Strings({"0", "1"}, MaxCanonLen) :
        /\ calls = 0
        /\ Simulate(x)
        /\ calls' = 1

NextCanon == CallFresh \/ Step \/ Finish

SpecCanon == InitCanon /\ [][NextCanon]_vars

\* The canonical automaton, inputs that may hold the input-end marker.
CallMarker ==
    \E x \in Strings(Range(CanonicalAlphabet), MaxMarkerLen) :
        /\ calls < MaxCalls
        /\ Simulate(x)
        /\ calls' = calls + 1

NextMarker == CallMarker \/ Step \/ Finish

SpecMarker == InitCanon /\ [][NextMarker]_vars

----------------------------------------------------------------------------
(* Text: a line is a sequence of one-character strings                     *)

Min(S) == CHOOSE x \in S : \A y \in S : x <= y
Max(S) == CHOOSE x \in S : \A y \in S : x >= y

\* the characters of the str s
Chars(s) == [i \in 1..Len(s) |-> SubSeq(s, i, i)]

\* the str made of the characters cs
RECURSIVE Str(_)
Str(cs) == IF cs = <<>> THEN "" ELSE cs[1] \o Str(Tail(cs))

\* A character is a str of length one with a code point below 256, the
\* characters a string of this module can hold.
\* the characters str.strip() removes
Whitespace ==
    {"\t", "\n", "", "\f", "\r", "", "", "", "", " ", "", " "}

\* the characters that \w matches
WordChars ==
    {"0", "1", "2", "3", "4", "5", "6", "7", "8", "9", "A", "B", "C", "D",
     "E", "F", "G", "H", "I", "J", "K", "L", "M", "N", "O", "P", "Q", "R",
     "S", "T", "U", "V", "W", "X", "Y", "Z", "_", "a", "b", "c", "d", "e",
     "f", "g", "h", "i", "j", "k", "l", "m", "n", "o", "p", "q", "r", "s",
     "t", "u", "v", "w", "x", "y", "z",
     "ª", "²", "³", "µ", "¹", "º", "¼", "½", "¾", "À", "Á", "Â", "Ã", "Ä",
     "Å", "Æ", "Ç", "È", "É", "Ê", "Ë", "Ì", "Í", "Î", "Ï", "Ð", "Ñ", "Ò",
     "Ó", "Ô", "Õ", "Ö", "Ø", "Ù", "Ú", "Û", "Ü", "Ý", "Þ", "ß", "à", "á",
     "â", "ã", "ä", "å", "æ", "ç", "è", "é", "ê", "ë", "ì", "í", "î", "ï",
     "ð", "ñ", "ò", "ó", "ô", "õ", "ö", "ø", "ù", "ú", "û", "ü", "ý", "þ",
     "ÿ"}

strip(s) ==
    LET keep == {i \in 1..Len(s) : s[i] \notin Whitespace}
    IN  IF keep = {} THEN <<>> ELSE SubSeq(s, Min(keep), Max(keep))

\* text lit stands in s at index i
IsAt(s, i, lit) ==
    /\ i >= 1
    /\ i + Len(lit) - 1 <= Len(s)
    /\ SubSeq(s, i, i + Len(lit) - 1) = lit

startswith(s, prefix) == IsAt(s, 1, prefix)

\* index of the first occurrence of sep in s, 0 when there is none
Find(s, sep) ==
    LET hits == {i \in 1..Len(s) : IsAt(s, i, sep)}
    IN  IF hits = {} THEN 0 ELSE Min(hits)

RECURSIVE split(_, _)
split(s, sep) ==
    LET i == Find(s, sep)
    IN  IF i = 0 THEN <<s>>
        ELSE <<SubSeq(s, 1, i - 1)>> \o split(SubSeq(s, i + Len(sep), Len(s)), sep)

Colon == <<":">>
CommaSpace == <<",", " ">>
Arrow == <<"-", ">">>

KeyStates ==
    <<"s", "t", "a", "t", "e", "s", ":">>

KeyAlphabet ==
    <<"a", "l", "p", "h", "a", "b", "e", "t", ":">>

KeyInitialState ==
    <<"i", "n", "i", "t", "i", "a", "l", "_", "s", "t", "a", "t", "e", ":">>

KeyFinalStates ==
    <<"f", "i", "n", "a", "l", "_", "s", "t", "a", "t", "e", "s", ":">>

KeyRejectingStates ==
    <<"r", "e", "j", "e", "c", "t", "i", "n", "g", "_", "s", "t", "a", "t",
      "e", "s", ":">>

KeyTransitionFunction ==
    <<"t", "r", "a", "n", "s", "i", "t", "i", "o", "n", "_", "f", "u", "n",
      "c", "t", "i", "o", "n", ":">>

\* line.split(":")[1].strip()
AfterColon(line) == strip(split(line, Colon)[2])

\* line.split(":")[1].strip().split(", ")
ListAfterColon(line) ==
    LET parts == split(AfterColon(line), CommaSpace)
    IN  [i \in 1..Len(parts) |-> Str(parts[i])]

\* re.match(r"^\w+:$", line) on a stripped line
HeaderMatch(line) ==
    /\ Len(line) >= 2
    /\ line[Len(line)] = ":"
    /\ \A i \in 1..(Len(line) - 1) : line[i] \in WordChars

\* re.match(r"\((.+), (.+)\) -> (\w+) \[(.*)\]", line): the index of the
\* last character of each group, for every way the pattern can match at
\* the start of the line; the match taken is the greedy one.
Ends4(s, e3) == {e4 \in (e3 + 2)..Len(s) : IsAt(s, e4 + 1, <<"]">>)}

Ends3(s, e2) ==
    {e3 \in (e2 + 6)..Len(s) :
        /\ \A i \in (e2 + 6)..e3 : s[i] \in WordChars
        /\ IsAt(s, e3 + 1, <<" ", "[">>)
        /\ Ends4(s, e3) # {}}

Ends2(s, e1) ==
    {e2 \in (e1 + 3)..Len(s) :
        /\ IsAt(s, e2 + 1, <<")", " ", "-", ">", " ">>)
        /\ Ends3(s, e2) # {}}

Ends1(s) ==
    {e1 \in 2..Len(s) :
        /\ IsAt(s, 1, <<"(">>)
        /\ IsAt(s, e1 + 1, CommaSpace)
        /\ Ends2(s, e1) # {}}

TransitionMatch(s) == Ends1(s) # {}

TransitionGroups(s) ==
    LET e1 == Max(Ends1(s))
        e2 == Max(Ends2(s, e1))
        e3 == Max(Ends3(s, e2))
        e4 == Max(Ends4(s, e3))
    IN  [input_symbol |-> SubSeq(s, 2, e1),
         stack_top    |-> SubSeq(s, e1 + 3, e2),
         next_state   |-> SubSeq(s, e2 + 6, e3),
         stack_action |-> SubSeq(s, e3 + 3, e4)]

\* the substitution of the reserved names by the reserved symbols
Reserved(token) ==
    IF token = "STACK_END" THEN STACK_END
    ELSE IF token = "INPUT_END" THEN INPUT_END
    ELSE token

\* the push list of a transition line
StackAction(text) ==
    IF text = <<>> THEN <<>>
    ELSE LET parts == split(text, CommaSpace)
         IN  [i \in 1..Len(parts) |-> Reserved(Str(strip(parts[i])))]

\* transition_function[current_state][key] = value
Store(tf, current_state, key, value) ==
    [s \in DOMAIN tf \cup {current_state} |->
        LET old == IF s \in DOMAIN tf THEN tf[s] ELSE <<>>
        IN  IF s = current_state
            THEN [k \in DOMAIN old \cup {key} |->
                    IF k = key THEN value ELSE old[k]]
            ELSE old]


\* The header test as it would be without the validation.
DeclaredAlways(current_state, states) == TRUE

\* current_state in states
Declared(current_state, states) == current_state \in Range(states)

\* One iteration of the loop over the lines: the frame f after line raw.
ParseLine(f, raw) ==
    LET line == strip(raw)
    IN  IF startswith(line, <<"#">>) \/ line = <<>> THEN f
        ELSE IF startswith(line, KeyStates)
        THEN [f EXCEPT !.states = ListAfterColon(line)]
        ELSE IF startswith(line, KeyAlphabet)
        THEN [f EXCEPT !.alphabet = ListAfterColon(line)]
        ELSE IF startswith(line, KeyInitialState)
        THEN [f EXCEPT !.initial_state = Some(Str(AfterColon(line)))]
        ELSE IF startswith(line, KeyFinalStates)
        THEN [f EXCEPT !.final_states = ListAfterColon(line)]
        ELSE IF startswith(line, KeyRejectingStates)
        THEN [f EXCEPT !.rejecting_states = ListAfterColon(line)]
        ELSE IF startswith(line, KeyTransitionFunction)
        THEN [f EXCEPT !.current_state = None, !.unbound = {}]
        ELSE IF HeaderMatch(line)
        THEN LET current_state == Str(SubSeq(line, 1, Len(line) - 1))
             IN  IF Declared(current_state, f.states)
                 THEN [f EXCEPT !.current_state = Some(current_state),
                                !.unbound = {}]
                 ELSE [f EXCEPT !.current_state = Some(current_state),
                                !.unbound = {},
                                !.error = "ValueError"]
        ELSE IF "current_state" \in f.unbound
        THEN [f EXCEPT !.error = "UnboundLocalError"]
        ELSE IF /\ f.current_state # None
                /\ f.current_state[1] # ""
                /\ Find(line, Arrow) # 0
        THEN IF TransitionMatch(line)
             THEN LET g == TransitionGroups(line)
                      key == TransitionFunctionInput(
                                 Str(g.input_symbol), Reserved(Str(g.stack_top)))
                      value == TransitionFunctionValue(
                                 Str(g.next_state), StackAction(g.stack_action))
                  IN  [f EXCEPT !.transition_function =
                          Store(@, f.current_state[1], key, value)]
             ELSE f
        ELSE f

----------------------------------------------------------------------------
(* The definition files explored by SpecParse                              *)

LineStates ==
    <<"s", "t", "a", "t", "e", "s", ":", " ", "q", "0", ",", " ", "q", "1",
      "\n">>

LineAlphabet ==
    <<"a", "l", "p", "h", "a", "b", "e", "t", ":", " ", "a", ",", " ", "I",
      "N", "P", "U", "T", "_", "E", "N", "D", "\n">>

LineInitial ==
    <<"i", "n", "i", "t", "i", "a", "l", "_", "s", "t", "a", "t", "e", ":",
      " ", "q", "1", "\n">>

LineFinalEmpty ==
    <<"f", "i", "n", "a", "l", "_", "s", "t", "a", "t", "e", "s", ":", "\n">>

LineSection ==
    <<"t", "r", "a", "n", "s", "i", "t", "i", "o", "n", "_", "f", "u", "n",
      "c", "t", "i", "o", "n", ":", "\n">>

LineHeaderQ0 ==
    <<" ", " ", " ", " ", "q", "0", ":", "\n">>

LineHeaderQ9 ==
    <<"q", "9", ":", "\n">>

LinePush ==
    <<" ", " ", " ", " ", " ", " ", " ", " ", "(", "a", ",", " ", "S", "T",
      "A", "C", "K", "_", "E", "N", "D", ")", " ", "-", ">", " ", "q", "1",
      " ", "[", "S", "T", "A", "C", "K", "_", "E", "N", "D", ",", " ", "Z",
      "]", "\n">>

LinePop ==
    <<"(", "I", "N", "P", "U", "T", "_", "E", "N", "D", ",", " ", "Z", ")",
      " ", "-", ">", " ", "q", "1", " ", "[", "]", "\n">>

LineNoBracket ==
    <<"(", "a", ",", " ", "Z", ")", " ", "-", ">", " ", "q", "1", " ", "[",
      "Z", "\n">>

LineComment ==
    <<"#", "q", "9", ":", "\n">>

LineOther ==
    <<"q", "0", " ", "q", "1", "\n">>

LineHeaderFormFeed ==
    <<"\f", "q", "1", ":", "\n">>

LineHeaderLatin ==
    <<"é", ":", "\n">>

LineInitialNone ==
    Chars("initial_state: <None>\n")

LinePool ==
    {LineStates, LineAlphabet, LineInitial, LineFinalEmpty, LineSection, LineHeaderQ0,
     LineHeaderQ9, LinePush, LinePop, LineNoBracket, LineComment, LineOther,
     LineHeaderFormFeed, LineHeaderLatin, LineInitialNone}

Files == UNION {[1..n -> LinePool] : n \in 0..MaxLines}

----------------------------------------------------------------------------
(* Automata.create_from_file                                               *)

\* The locals at the start of create_from_file, the file read into lines.
\* unbound holds the names of the locals no assignment has reached yet;
\* the value of such a local in the frame is not read.
Frame(lines) ==
    [lines               |-> lines,
     line_no             |-> 0,
     states              |-> <<>>,
     alphabet            |-> <<>>,
     initial_state       |-> None,
     final_states        |-> <<>>,
     rejecting_states    |-> <<>>,
     transition_function |-> <<>>,
     current_state       |-> None,
     unbound             |-> {"current_state"},
     error               |-> "none"]

\* what state and initial_state hold while no instance exists (pc is
\* "parse" or "failed")
Absent == "<absent>"

\* no instance exists while the file is parsed
NoInstance ==
    /\ transitions = <<>>
    /\ alphabet = {}
    /\ final_states = {}
    /\ rejecting_states = {}
    /\ initial_state = Absent
    /\ state = Absent
    /\ stack = <<>>
    /\ input_string = <<>>
    /\ pos = 0
    /\ result = "none"
    /\ visited = <<>>
    /\ last = "none"
    /\ prev_input = <<>>
    /\ prev_result = "none"
    /\ calls = 0

InitParse ==
    /\ pc = "parse"
    /\ \E lines \in Files : parse = Frame(lines)
    /\ NoInstance

\* The loop body runs for the next line of the file.
ReadLine ==
    /\ pc = "parse"
    /\ parse.line_no < Len(parse.lines)
    /\ LET f == ParseLine(parse, parse.lines[parse.line_no + 1])
       IN  IF f.error = "none"
           THEN parse' = [f EXCEPT !.line_no = @ + 1] /\ pc' = "parse"
           ELSE parse' = f /\ pc' = "failed"
    /\ UNCHANGED <<config, state, stack, input_string, pos, result, visited,
                   last, prev_input, prev_result, calls>>

\* The lines are exhausted and the Automata is constructed and returned.
Construct ==
    /\ pc = "parse"
    /\ parse.line_no = Len(parse.lines)
    /\ LET a == Automata(parse.states, parse.alphabet, parse.transition_function,
                         parse.initial_state, Some(parse.final_states),
                         parse.rejecting_states)
       IN  IF a.error # "none"
           THEN /\ parse' = [parse EXCEPT !.error = a.error]
                /\ pc' = "failed"
                /\ UNCHANGED <<config, state, stack>>
           ELSE /\ state' = a.state
                /\ stack' = a.stack
                /\ transitions' = a.transitions
                /\ alphabet' = a.alphabet
                /\ final_states' = a.final_states
                /\ rejecting_states' = a.rejecting_states
                /\ initial_state' = a.initial_state
                /\ pc' = "new"
                /\ UNCHANGED parse
    /\ UNCHANGED <<input_string, pos, result, visited, last,
                   prev_input, prev_result, calls>>

NextParse == ReadLine \/ Construct

SpecParse == InitParse /\ [][NextParse]_vars

----------------------------------------------------------------------------
(* The permutation test of the demonstration                               *)

\* automata.txt, the definition file the demonstration reads before the
\* test.  The file is not among the sources: it is taken to be the
\* canonical automaton written in the grammar of the parser.
automata_txt ==
    << Chars("states: q0, q1, qR, qA\n"),
       Chars("alphabet: 0, 1, INPUT_END\n"),
       Chars("initial_state: q0\n"),
       Chars("final_states: qA\n"),
       Chars("rejecting_states: qR\n"),
       Chars("transition_function:\n"),
       Chars("    q0:\n"),
       Chars("        (0, STACK_END) -> q1 [STACK_END, 0]\n"),
       Chars("        (0, 0) -> q1 [0, 0]\n"),
       Chars("        (0, 1) -> q1 []\n"),
       Chars("        (1, STACK_END) -> q0 [STACK_END, 1]\n"),
       Chars("        (1, 0) -> q0 []\n"),
       Chars("        (1, 1) -> q0 [1, 1]\n"),
       Chars("        (INPUT_END, STACK_END) -> qA [STACK_END]\n"),
       Chars("        (INPUT_END, 0) -> qR []\n"),
       Chars("        (INPUT_END, 1) -> qR []\n"),
       Chars("    q1:\n"),
       Chars("        (0, STACK_END) -> q0 [STACK_END]\n"),
       Chars("        (0, 0) -> q0 [0]\n"),
       Chars("        (0, 1) -> q0 [1]\n"),
       Chars("        (1, STACK_END) -> q1 [STACK_END, 1]\n"),
       Chars("        (1, 0) -> q1 []\n"),
       Chars("        (1, 1) -> q1 [1, 1]\n"),
       Chars("        (INPUT_END, STACK_END) -> qR [STACK_END]\n"),
       Chars("        (INPUT_END, 0) -> qR [0]\n"),
       Chars("        (INPUT_END, 1) -> qR [1]\n") >>

\* automata = Automata.create_from_file("automata.txt") is entered: the
\* name automata leaves the instance built in code, the file is read.
OpenFile ==
    /\ pc = "new"
    /\ parse = NoFrame
    /\ parse' = Frame(automata_txt)
    /\ pc' = "parse"
    /\ transitions' = <<>>
    /\ alphabet' = {}
    /\ final_states' = {}
    /\ rejecting_states' = {}
    /\ initial_state' = Absent
    /\ state' = Absent
    /\ stack' = <<>>
    /\ UNCHANGED <<input_string, pos, result, visited, last,
                   prev_input, prev_result, calls>>

Count(s, c) == Cardinality({i \in 1..Len(s) : s[i] = c})

test_cases ==
    {s \in [1..9 -> {"0", "1"}] : Count(s, "1") = 3}

\* one simulate call of the loop over test_cases, on the instance that
\* create_from_file returned
CallPermutation ==
    \E x \in test_cases :
        /\ parse.lines = automata_txt
        /\ Simulate(x)
        /\ UNCHANGED calls

NextPerm == OpenFile \/ ReadLine \/ Construct \/ CallPermutation \/ Step \/ Finish

SpecPerm == InitCanon /\ [][NextPerm]_vars

----------------------------------------------------------------------------
(* Properties                                                              *)

\* the symbol the loop is at, when there is one
AtSymbol == pos < Len(input_string)
Symbol == input_string[pos + 1]

Returned(r) == r \in {"True", "False"}

\* C1: at the start of every simulate call, the first one or one that
\* follows a call that returned, the current state is the initial state and
\* the stack is exactly the sentinel.
C1_ResetAtCallStart ==
    (/\ pc = "loop" /\ pos = 0 /\ last = "none"
     /\ (calls = 1 \/ Returned(prev_result)))
        => (state = initial_state /\ stack = <<STACK_END>>)

\* C2: two consecutive calls with the same input on one instance, when both
\* return, return the same boolean.
C2_RepeatedCallSameResult ==
    (/\ pc = "done" /\ calls >= 2 /\ prev_input = input_string
     /\ Returned(prev_result) /\ Returned(result))
        => result = prev_result

\* C3 as stated: for an input with an out-of-alphabet symbol at any
\* position, the value simulate returns is false.
C3_AnyBadSymbolRejects ==
    (/\ pc = "done" /\ Returned(result)
     /\ \E i \in 1..Len(input_string) : input_string[i] \notin alphabet)
        => result = "False"

\* C3 amended: when the loop reaches a symbol outside the alphabet, the call
\* returns false at that symbol.
C3_ReachedBadSymbolRejects ==
    [][(pc = "loop" /\ AtSymbol /\ Symbol \notin alphabet)
          => (pc' = "done" /\ result' = "False")]_vars

C3_Witness ==
    /\ pc = "done" /\ result = "False" /\ last = "not in alphabet"
    /\ pos >= 1 /\ input_string[pos + 1] \notin alphabet

\* C4: the canonical automaton on a fresh instance accepts a binary string
\* exactly when it has twice as many 0s as 1s.
C4_CanonicalLanguage ==
    pc = "done" =>
        ((result = "True") <=>
            (Count(input_string, "0") = 2 * Count(input_string, "1")))

\* C5: in the permutation test on one instance every call returns true,
\* which is count('0') == 2*count('1'), and leaves state q0 and stack
\* [sentinel].
C5_PermutationTest ==
    pc = "done" =>
        /\ result = "True"
        /\ Count(input_string, "0") = 2 * Count(input_string, "1")
        /\ state = "q0"
        /\ stack = <<STACK_END>>

C5_Witness ==
    /\ pc = "done" /\ result = "True" /\ prev_result = "True"
    /\ prev_input # input_string
    /\ Len(input_string) = 9 /\ pos = 9

\* C6 as stated: with a rejecting current state after any prefix, the empty
\* one included, the value simulate returns is false.
C6_RejectingAtAnyPrefix ==
    (pc = "done" /\ Returned(result) /\ \E i \in 1..Len(visited) : visited[i] \in rejecting_states)
        => result = "False"

\* C6 amended: once a matched transition has put the automaton in a
\* rejecting state, the call has returned false there, whatever follows.
C6_RejectingAfterTransition ==
    (\E i \in 2..Len(visited) : visited[i] \in rejecting_states)
        => (pc = "done" /\ result = "False"
            /\ visited[Len(visited)] \in rejecting_states
            /\ \A i \in 2..(Len(visited) - 1) : visited[i] \notin rejecting_states)

C6_Witness ==
    /\ pc = "done" /\ result = "False" /\ last = "transition"
    /\ state \in rejecting_states
    /\ pos + 1 < Len(input_string)

\* C7: when the input is exhausted the call returns true if the state is
\* final or the stack top is the sentinel, and false otherwise, an empty
\* stack in a non-final state included.
C7_EndOfInputDecision ==
    (pc = "done" /\ pos = Len(input_string))
        => result = IF \/ state \in final_states
                       \/ (stack # <<>> /\ Top(stack) = STACK_END)
                    THEN "True" ELSE "False"

\* C8: with every sentinel-keyed transition pushing the sentinel back
\* first, the stack is non-empty with the sentinel at its bottom at every
\* symbol boundary of every call that follows a call that returned.
SentinelRestoring ==
    \A s \in DOMAIN transitions : \A k \in DOMAIN transitions[s] :
        k[2] = STACK_END =>
            /\ transitions[s][k].symbols_to_push # <<>>
            /\ transitions[s][k].symbols_to_push[1] = STACK_END

C8_SentinelAtBottom ==
    (SentinelRestoring /\ pc = "loop" /\ (calls = 1 \/ Returned(prev_result)))
        => (stack # <<>> /\ stack[1] = STACK_END)

\* C9: processing an in-alphabet symbol on an empty stack ends the call in
\* a fault, never in true or false.
C9_UnderflowIsFault ==
    [][(pc = "loop" /\ AtSymbol /\ Symbol \in alphabet /\ stack = <<>>)
          => (pc' = "done" /\ result' \notin {"True", "False", "none"})]_vars

C9_Witness ==
    /\ pc = "done" /\ result = "IndexError" /\ last = "pop from empty list"
    /\ input_string[pos + 1] \in alphabet /\ stack = <<>>

\* C10: a lookup that finds no entry in the current state's block returns
\* false at that symbol, leaves the current state unchanged and leaves the
\* stack without its former top.
C10_NoTransitionRejects ==
    [][(/\ pc = "loop" /\ AtSymbol /\ Symbol \in alphabet /\ stack # <<>>
        /\ state \in DOMAIN transitions
        /\ <<Symbol, stack[Len(stack)]>> \notin DOMAIN transitions[state])
          => (/\ pc' = "done" /\ result' = "False" /\ pos' = pos
              /\ state' = state
              /\ stack' = SubSeq(stack, 1, Len(stack) - 1))]_vars

C10_Witness ==
    /\ pc = "done" /\ result = "False" /\ last = "transition not found"
    /\ pos >= 1 /\ state \in DOMAIN transitions /\ stack # <<>>

\* the lookup the loop makes for the symbol at hand
Key == <<Symbol, stack[Len(stack)]>>
Matched ==
    /\ pc = "loop" /\ AtSymbol /\ Symbol \in alphabet /\ stack # <<>>
    /\ state \in DOMAIN transitions
    /\ Key \in DOMAIN transitions[state]
Action == transitions[state][Key]

\* C11: after a transition into a state that has no transition block and is
\* neither final nor rejecting, the next in-alphabet symbol makes simulate
\* return false.
C11_MissingBlockRejects ==
    [][(/\ pc = "loop" /\ AtSymbol /\ Symbol \in alphabet /\ stack # <<>>
        /\ last = "transition"
        /\ state \notin DOMAIN transitions
        /\ state \notin (final_states \cup rejecting_states))
          => (pc' = "done" /\ result' = "False")]_vars

\* C12: a matched transition into a final, non-rejecting state makes the
\* call return true at that symbol, with the state and stack that transition
\* leaves, whatever symbols follow.
C12_FinalShortCircuit ==
    [][(Matched /\ Action.next_state \in (final_states \ rejecting_states))
          => (/\ pc' = "done" /\ result' = "True" /\ pos' = pos
              /\ state' = Action.next_state
              /\ stack' = SubSeq(stack, 1, Len(stack) - 1)
                              \o Action.symbols_to_push)]_vars

C12_Witness ==
    /\ pc = "done" /\ result = "True" /\ last = "transition"
    /\ state \in final_states
    /\ pos + 1 < Len(input_string)
    /\ input_string[pos + 2] \notin alphabet

\* C13: during a call the state and stack change only at an input symbol,
\* by the pop and the transition keyed on that symbol, one symbol after the
\* other; a transition into qA or qR, keyed on the marker, is taken only
\* where the input holds the marker.
C13_OneTransitionPerSymbol ==
    [][(pc = "loop" /\ (state' # state \/ stack' # stack))
          => (/\ AtSymbol /\ Symbol \in alphabet /\ stack # <<>>
              /\ (pos' = pos + 1 /\ pc' = "loop") \/ (pos' = pos /\ pc' = "done")
              /\ IF state \in DOMAIN transitions /\ Key \in DOMAIN transitions[state]
                 THEN /\ state' = Action.next_state
                      /\ stack' = SubSeq(stack, 1, Len(stack) - 1)
                                      \o Action.symbols_to_push
                 ELSE /\ state' = state
                      /\ stack' = SubSeq(stack, 1, Len(stack) - 1)
              /\ (state' \in {"qA", "qR"} /\ state' # state)
                    => Symbol = INPUT_END)]_vars

C13_Witness ==
    /\ pc = "done" /\ result = "True" /\ last = "transition"
    /\ state = "qA" /\ pos >= 1
    /\ input_string[pos + 1] = INPUT_END

\* C16: a matched transition sets the state to its next state and the stack
\* to the former stack without its top followed by the pushed symbols in
\* list order.
C16_PushOrder ==
    [][Matched
          => (/\ state' = Action.next_state
              /\ Len(stack') = Len(stack) - 1 + Len(Action.symbols_to_push)
              /\ \A i \in 1..(Len(stack) - 1) : stack'[i] = stack[i]
              /\ \A i \in 1..Len(Action.symbols_to_push) :
                    stack'[Len(stack) - 1 + i] = Action.symbols_to_push[i])]_vars

C16_Witness ==
    /\ last = "transition" /\ Len(stack) = 2
    /\ stack[1] = STACK_END /\ stack[2] = "Z" /\ state = "q1"

\* C17: a matched transition into a state that is both rejecting and final
\* makes the call return false.
C17_RejectingFirst ==
    [][(Matched /\ Action.next_state \in (final_states \cap rejecting_states))
          => (pc' = "done" /\ result' = "False" /\ pos' = pos)]_vars

C17_Witness ==
    /\ pc = "done" /\ result = "False" /\ last = "transition"
    /\ state \in (final_states \cap rejecting_states)

\* C19: on a fresh instance simulate of the empty input returns true.
C19_EmptyInputAccepted ==
    (pc = "done" /\ calls = 1 /\ input_string = <<>>) => result = "True"

C19_Witness ==
    /\ pc = "done" /\ calls = 1 /\ input_string = <<>> /\ result = "True"
    /\ initial_state \in rejecting_states
    /\ initial_state \notin final_states

\* C20: a symbol outside the alphabet ends the call with false and leaves
\* the state and the stack as they were.
C20_BadSymbolChangesNothing ==
    [][(pc = "loop" /\ AtSymbol /\ Symbol \notin alphabet)
          => (/\ pc' = "done" /\ result' = "False"
              /\ state' = state /\ stack' = stack)]_vars

C20_Witness ==
    /\ pc = "done" /\ result = "False" /\ last = "not in alphabet"
    /\ pos >= 1 /\ input_string[pos + 1] \notin alphabet
    /\ Len(stack) >= 2

\* the stripped line the loop of create_from_file is at, when there is one
AtLine == pc = "parse" /\ parse.line_no < Len(parse.lines)
Line == strip(parse.lines[parse.line_no + 1])

Keywords ==
    {KeyStates, KeyAlphabet, KeyInitialState, KeyFinalStates,
     KeyRejectingStates, KeyTransitionFunction}

\* C14: a state-header line, a word and a colon that is no section keyword,
\* whose word is not in the states declared so far makes parsing fail with
\* the validation error, and a failed parse never yields an automaton.
C14_UndeclaredHeaderFails ==
    [][/\ (/\ AtLine /\ HeaderMatch(Line) /\ Line \notin Keywords
           /\ \A i \in 1..Len(parse.states) :
                 parse.states[i] # Str(SubSeq(Line, 1, Len(Line) - 1)))
          => (pc' = "failed" /\ parse'.error = "ValueError")
       /\ pc = "failed" => (pc' = "failed" /\ state' = Absent)]_vars

C14_Witness ==
    /\ pc = "failed" /\ parse.error = "ValueError"
    /\ parse.states = <<"q0", "q1">>
    /\ parse.current_state = Some("q9")
    /\ state = Absent

\* C15: a line that is no comment and matches none of the grammar's forms
\* is skipped wherever it stands: nothing is stored, no error is raised and
\* parsing goes on with the next line.
NoGrammarForm(line) ==
    /\ line # <<>>
    /\ line[1] # "#"
    /\ \A k \in Keywords : ~startswith(line, k)
    /\ ~HeaderMatch(line)
    /\ ~TransitionMatch(line)

C15_UnmatchedLineSkipped ==
    [][(AtLine /\ NoGrammarForm(Line))
          => (/\ pc' = "parse"
              /\ parse' = [parse EXCEPT !.line_no = @ + 1])]_vars

\* C18: in the automaton built from a file no symbol position, in the
\* alphabet, in a transition key or in a push list, still holds the name
\* STACK_END or INPUT_END.
ReservedNames == {"STACK_END", "INPUT_END"}

C18_ReservedNamesRewritten ==
    pc = "new" =>
        /\ alphabet \cap ReservedNames = {}
        /\ \A s \in DOMAIN transitions : \A k \in DOMAIN transitions[s] :
              /\ k[1] \notin ReservedNames
              /\ k[2] \notin ReservedNames
              /\ \A i \in 1..Len(transitions[s][k].symbols_to_push) :
                    transitions[s][k].symbols_to_push[i] \notin ReservedNames

====
